---------------------------- MODULE Spec2Model ----------------------------
(***************************************************************************)
(* Model of quartr-streamlit-app.py: the document retrieval-and-archival   *)
(* pipeline (main, process_documents, QuartrAPI.get_company_events,        *)
(* TranscriptProcessor.process_transcript, S3Handler.upload_file,          *)
(* format_s3_key).                                                         *)
(*                                                                         *)
(* The program is single-threaded asyncio code.  One action of the model   *)
(* is the code that runs between two suspension points (await) of the      *)
(* coroutines; the metadata fetches started by asyncio.gather complete in  *)
(* any order.  Python strings that the code inspects character by          *)
(* character (dates, names, URLs, keys) are sequences of one-character     *)
(* strings.                                                                *)
(***************************************************************************)
EXTENDS Integers, Sequences, FiniteSets, TLC

(***************************************************************************)
(* Bounds of the model.                                                    *)
(***************************************************************************)
MaxRuns == 2          \* submissions of the form in one session
MaxIsins == 2         \* lines of the ISIN text area

(***************************************************************************)
(* Python str operations.                                                  *)
(***************************************************************************)
UpperChars == <<"A","B","C","D","E","F","G","H","I","J","K","L","M",
                "N","O","P","Q","R","S","T","U","V","W","X","Y","Z">>
LowerChars == <<"a","b","c","d","e","f","g","h","i","j","k","l","m",
                "n","o","p","q","r","s","t","u","v","w","x","y","z">>

\* str.lower() on one character
LowerChar(c) ==
    IF \E i \in 1..Len(UpperChars) : UpperChars[i] = c
    THEN LowerChars[CHOOSE i \in 1..Len(UpperChars) : UpperChars[i] = c]
    ELSE c

\* str.lower()
Lower(s) == [i \in 1..Len(s) |-> LowerChar(s[i])]

\* str.replace(old, new) for one-character old and new
Replace(s, old, new) == [i \in 1..Len(s) |-> IF s[i] = old THEN new ELSE s[i]]

\* positions of the character sep in s
Positions(s, sep) == {i \in 1..Len(s) : s[i] = sep}

\* str.split(sep)[0]: the part before the first sep, the whole string without one
SplitFirst(s, sep) ==
    IF Positions(s, sep) = {} THEN s
    ELSE LET p == CHOOSE i \in Positions(s, sep) : \A j \in Positions(s, sep) : i <= j
         IN  SubSeq(s, 1, p - 1)

\* str.split(sep)[-1]: the part after the last sep, the whole string without one
SplitLast(s, sep) ==
    IF Positions(s, sep) = {} THEN s
    ELSE LET p == CHOOSE i \in Positions(s, sep) : \A j \in Positions(s, sep) : j <= i
         IN  SubSeq(s, p + 1, Len(s))

\* code points of the characters that occur in date strings
CodePoint(c) ==
    CASE c = "-" -> 45
      [] c = "0" -> 48 [] c = "1" -> 49 [] c = "2" -> 50 [] c = "3" -> 51
      [] c = "4" -> 52 [] c = "5" -> 53 [] c = "6" -> 54 [] c = "7" -> 55
      [] c = "8" -> 56 [] c = "9" -> 57
      [] c = ":" -> 58
      [] c = "T" -> 84
      [] c = "Z" -> 90

\* Python's a <= b on str: lexicographic by code point, a prefix is smaller
RECURSIVE StrLeq(_, _)
StrLeq(a, b) ==
    IF a = <<>> THEN TRUE
    ELSE IF b = <<>> THEN FALSE
    ELSE IF a[1] = b[1] THEN StrLeq(Tail(a), Tail(b))
    ELSE CodePoint(a[1]) < CodePoint(b[1])

\* dict.get(key, default)
Get(d, key, default) == IF key \in DOMAIN d THEN d[key] ELSE default

\* truth value of a str or None (None and '' are both false): None is <<>> here
None == <<>>
Truthy(v) == v # <<>>

\* truth value of a dict: {} is false
EmptyDict == [k \in {} |-> <<>>]
NotDict(d) == DOMAIN d = {}

(***************************************************************************)
(* datetime.date.strftime("%Y-%m-%d") of a date <<year, month, day>>.      *)
(***************************************************************************)
Digits == <<"0","1","2","3","4","5","6","7","8","9">>
DigitChar(n) == Digits[n + 1]
Pad2(n) == <<DigitChar(n \div 10), DigitChar(n % 10)>>
Pad4(n) == <<DigitChar(n \div 1000), DigitChar((n \div 100) % 10),
             DigitChar((n \div 10) % 10), DigitChar(n % 10)>>
Strftime(d) == Pad4(d[1]) \o <<"-">> \o Pad2(d[2]) \o <<"-">> \o Pad2(d[3])

(***************************************************************************)
(* The remote catalog and the form's choices: the data the runs draw on.   *)
(***************************************************************************)
DocTypes == {"slides", "report", "transcript"}

\* the characters of a document type, as the f-string of the key embeds them
DocTypeStr(doc_type) ==
    CASE doc_type = "slides" -> <<"s","l","i","d","e","s">>
      [] doc_type = "report" -> <<"r","e","p","o","r","t">>
      [] doc_type = "transcript" -> <<"t","r","a","n","s","c","r","i","p","t">>

\* f'{doc_type}Url'
UrlField(doc_type) == doc_type \o "Url"

AcmeCorp ==
    [displayName |-> <<"A","c","m","e"," ","C","o","r","p">>,
     events |-> <<
        [eventDate |-> <<"2","0","2","4","-","0","3","-","0","5","T","0","0",":","0","0",":","0","0">>,
         eventTitle |-> <<"Q","1"," ","C","a","l","l">>,
         slidesUrl |-> <<"s","/","Q","1"," ","S","l","i","d","e","s",".","p","d","f">>,
         transcriptUrl |-> <<"t","/","q","1">>],
        [eventDate |-> <<"2","0","2","4","-","0","3","-","0","6">>,
         eventTitle |-> <<"A","G","M">>,
         slidesUrl |-> <<>>,
         reportUrl |-> <<"r","/","a","g","m",".","p","d","f">>]
     >>]

NovoAS ==
    [displayName |-> <<"N","o","v","o"," ","A","/","S">>,
     events |-> <<
        [eventDate |-> <<"2","0","2","3","-","1","2","-","3","1","T","2","3",":","5","9",":","5","9","Z">>,
         eventTitle |-> <<"F","Y">>,
         reportUrl |-> <<"r","/","F","Y",".","p","d","f">>,
         transcriptUrl |-> <<"t","/","f","y">>]
     >>]

\* a second listing of the first company: its name differs in case, its event
\* date has no time part, its slides file is stored under another name
AcmeAdr ==
    [displayName |-> <<"A","C","M","E"," ","C","o","r","p">>,
     events |-> <<
        [eventDate |-> <<"2","0","2","4","-","0","3","-","0","5">>,
         eventTitle |-> <<"Q","1"," ","c","a","l","l">>,
         slidesUrl |-> <<"x","/","q","1","_","s","l","i","d","e","s",".","p","d","f">>,
         transcriptUrl |-> <<"t","/","q","1","b">>]
     >>]

\* JSON null under a key that is present: dict.get returns None, not its default
NoneValue == <<"None">>

\* a company whose second event has no date
UndatedCo ==
    [displayName |-> <<"U","n","d","a","t","e","d">>,
     events |-> <<
        [eventDate |-> <<"2","0","2","4","-","0","3","-","0","6">>,
         eventTitle |-> <<"D","a","y">>,
         slidesUrl |-> <<"s","/","d","a","y",".","p","d","f">>],
        [eventDate |-> NoneValue,
         eventTitle |-> <<"T","B","A">>,
         slidesUrl |-> <<"s","/","t","b","a",".","p","d","f">>]
     >>]

\* GET /companies/isin/{isin}: the catalog's answer when the transport works
Catalog(isin) ==
    CASE isin = "US1" -> [status |-> 200, json |-> AcmeCorp]
      [] isin = "DK2" -> [status |-> 200, json |-> NovoAS]
      [] isin = "US3" -> [status |-> 200, json |-> AcmeAdr]
      [] isin = "ZZ0" -> [status |-> 200, json |-> UndatedCo]
      [] OTHER -> [status |-> 404, json |-> EmptyDict]

Identifiers == {"US1", "DK2", "XX9"}
Blank == ""

\* the lines of the ISIN text area
IsinInputs == UNION {[1..n -> Identifiers \cup {Blank}] : n \in 0..MaxIsins}

\* the dates the two date inputs offer
DateInputs == {<<2023, 12, 31>>, <<2024, 3, 5>>, <<2024, 3, 6>>}

\* the multiselect's lists, in the order the user picked the types
DocSelections == {<<>>, <<"transcript", "slides">>, <<"slides", "report", "transcript">>}

BucketInputs == {<<>>, <<"b">>}

\* the submissions whose runs are recorded and repeated: two listings of one
\* company, one identifier entered twice, a company with an undated event
RepeatedSelections ==
    { [isins |-> l, start |-> <<2023, 12, 31>>, end |-> <<2024, 3, 6>>,
       docs |-> <<"transcript", "slides">>] :
        l \in {<<"US1", "US3">>, <<"DK2", "DK2">>, <<"DK2", "ZZ0">>} }

\* datetime.date comparison a > b
DateGt(a, b) ==
    \/ a[1] > b[1]
    \/ a[1] = b[1] /\ a[2] > b[2]
    \/ a[1] = b[1] /\ a[2] = b[2] /\ a[3] > b[3]

(***************************************************************************)
(* format_s3_key                                                           *)
(***************************************************************************)
\* format_s3_key that leaves the spaces of the filename
FormatS3KeyFilenameSpaces(company_name, date, doc_type, filename) ==
    LET clean_company == Lower(Replace(Replace(company_name, " ", "_"), "/", "_"))
        clean_date == SplitFirst(date, "T")
        clean_filename == Lower(filename)
    IN  clean_company \o <<"/">> \o clean_date \o <<"/">> \o DocTypeStr(doc_type)
            \o <<"/">> \o clean_filename

\* format_s3_key that forgets to lower-case the file name
FormatS3KeyKeepCase(company_name, date, doc_type, filename) ==
    LET clean_company == Lower(Replace(Replace(company_name, " ", "_"), "/", "_"))
        clean_date == SplitFirst(date, "T")
        clean_filename == Replace(filename, " ", "_")
    IN  clean_company \o <<"/">> \o clean_date \o <<"/">> \o DocTypeStr(doc_type)
            \o <<"/">> \o clean_filename

FormatS3Key(company_name, date, doc_type, filename) ==
    LET clean_company == Lower(Replace(Replace(company_name, " ", "_"), "/", "_"))
        clean_date == SplitFirst(date, "T")
        clean_filename == Lower(Replace(filename, " ", "_"))
    IN  clean_company \o <<"/">> \o clean_date \o <<"/">> \o DocTypeStr(doc_type)
            \o <<"/">> \o clean_filename

\* f"{event_title.lower().replace(' ', '_')}_transcript.pdf"
TranscriptFilename(event_title) ==
    Replace(Lower(event_title), " ", "_") \o <<"_","t","r","a","n","s","c","r","i","p","t",".","p","d","f">>

(***************************************************************************)
(* Event selection, as the two loops of process_documents do it.           *)
(***************************************************************************)
\* event.get('eventDate', '').split('T')[0]
EventDate(event) == SplitFirst(Get(event, "eventDate", <<>>), "T")

\* InRange with the end of the range left out
InRangeEndExclusive(start, event_date, end) ==
    StrLeq(start, event_date) /\ StrLeq(event_date, end) /\ event_date # end

\* start_date <= event_date <= end_date
InRange(start, event_date, end) == StrLeq(start, event_date) /\ StrLeq(event_date, end)

\* event.get(f'{doc_type}Url')
FileUrl(event, doc_type) == Get(event, UrlField(doc_type), None)

RECURSIVE SumSeq(_)
SumSeq(s) == IF s = <<>> THEN 0 ELSE Head(s) + SumSeq(Tail(s))

RECURSIVE Flatten(_)
Flatten(s) == IF s = <<>> THEN <<>> ELSE Head(s) \o Flatten(Tail(s))

\* CountEvent counting every requested type, with or without a URL
CountEventAnyUrl(event, start, end, docs) ==
    IF InRange(start, EventDate(event), end) THEN Len(docs) ELSE 0

\* the counting loop over one event
CountEvent(event, start, end, docs) ==
    IF InRange(start, EventDate(event), end)
    THEN SumSeq([d \in 1..Len(docs) |->
                    IF Truthy(FileUrl(event, docs[d])) THEN 1 ELSE 0])
    ELSE 0

\* event.get('eventDate', '') is None: .split raises AttributeError
DateRaises(event) == Get(event, "eventDate", <<>>) = NoneValue

\* the counting loop over one company
CountCompany(company, start, end, docs) ==
    IF NotDict(company) THEN 0
    ELSE LET events == Get(company, "events", <<>>)
         IN  SumSeq([e \in 1..Len(events) |-> CountEvent(events[e], start, end, docs)])

\* the counting loop: total_files after it
CountTotal(companies, start, end, docs) ==
    SumSeq([c \in 1..Len(companies) |-> CountCompany(companies[c], start, end, docs)])

\* the events the counting loop visits, in its order
EventsInOrder(companies) ==
    Flatten([c \in 1..Len(companies) |->
                IF NotDict(companies[c]) THEN <<>>
                ELSE Get(companies[c], "events", <<>>)])

\* the counting loop raises: it comes to an event whose date is None
CountingRaises(companies) ==
    \E k \in 1..Len(EventsInOrder(companies)) : DateRaises(EventsInOrder(companies)[k])

\* total_files when the counting loop raises: the events before the undated one
CountBeforeRaise(companies, start, end, docs) ==
    LET events == EventsInOrder(companies)
        first == CHOOSE k \in 1..Len(events) :
                    /\ DateRaises(events[k])
                    /\ \A j \in 1..(k - 1) : ~DateRaises(events[j])
    IN  SumSeq([k \in 1..(first - 1) |-> CountEvent(events[k], start, end, docs)])

\* the units the processing loop visits for one event, in its order
UnitsOfEvent(c, company_name, e, event, start, end, docs) ==
    IF InRange(start, EventDate(event), end)
    THEN Flatten([d \in 1..Len(docs) |->
            IF Truthy(FileUrl(event, docs[d]))
            THEN << [company |-> c, event |-> e,
                     company_name |-> company_name,
                     event_date |-> EventDate(event),
                     event_title |-> Get(event, "eventTitle", <<"U","n","k","n","o","w","n"," ","E","v","e","n","t">>),
                     doc_type |-> docs[d],
                     file_url |-> FileUrl(event, docs[d])] >>
            ELSE <<>>])
    ELSE <<>>

\* the units the processing loop visits for one company
UnitsOfCompany(c, company, start, end, docs) ==
    IF NotDict(company) THEN <<>>
    ELSE LET events == Get(company, "events", <<>>)
             company_name == Get(company, "displayName", <<"u","n","k","n","o","w","n">>)
         IN  Flatten([e \in 1..Len(events) |->
                UnitsOfEvent(c, company_name, e, events[e], start, end, docs)])

\* the units the processing loop visits, in its order
ProcUnits(companies, start, end, docs) ==
    Flatten([c \in 1..Len(companies) |->
                UnitsOfCompany(c, companies[c], start, end, docs)])

(***************************************************************************)
(* The state of a session: the form, one run of process_documents at a     *)
(* time, and what the run has asked of the catalog and the object store.   *)
(***************************************************************************)
VARIABLES
    pc,                   \* where main / process_documents is suspended
    runs,                 \* submissions of the form so far
    processing_complete,  \* st.session_state.processing_complete
    outcome,              \* the message the last submission ended with
    isin_list,            \* arguments of process_documents
    start_date,
    end_date,
    selected_docs,
    tasks,                \* the get_company_events coroutines given to gather
    companies_data,       \* the result of gather
    total_files,
    processed_files,
    successful_uploads,
    failed_uploads,
    units,                \* the units the for statements of the processing loop
                          \* visit, in their order
    cur,                  \* position of the processing loop in units
    resp,                 \* how the current unit's requests have answered
    unit_calls,           \* the requests made for the current unit, in order
    s3_key,               \* the key the current unit is uploaded under
    calls,                \* the requests of the run, counted by kind
    progress_bar,         \* the fraction progress_bar shows, <<numerator, denominator>>
    files_processed,      \* the running tally shown, <<succeeded, failed>>
    progress_updates,     \* the updates of the progress bar inside the loop
    final_results,        \* the final results shown, <<total, succeeded, failed>>
    unit_errors,          \* st.error calls made for the current unit
    run_errors,           \* st.error calls made for an exception of the run
    raised,               \* an exception has left process_documents
    recording,            \* whether the session's history below is kept
    fetch_order,          \* the tasks of the run in the order they completed
    put_log,              \* the put_object calls of the run: unit, key, outcome
    store,                \* the keys present in the bucket
    first_run             \* the first run of the session, as it ended

vars == <<pc, runs, processing_complete, outcome, isin_list, start_date, end_date,
          selected_docs, tasks, companies_data, total_files, processed_files,
          successful_uploads, failed_uploads, units, cur, resp, unit_calls, s3_key, calls,
          progress_bar, files_processed, progress_updates, final_results,
          unit_errors, run_errors, raised,
          recording, fetch_order, put_log, store, first_run>>

session_vars == <<processing_complete>>
arg_vars == <<isin_list, start_date, end_date, selected_docs>>
counter_vars == <<total_files, processed_files, successful_uploads, failed_uploads>>
shown_vars == <<progress_bar, files_processed, progress_updates, final_results>>
error_vars == <<unit_errors, run_errors, raised>>
history_vars == <<recording, fetch_order, put_log, store, first_run>>

\* no run has ended yet
NoRun == [ended |-> FALSE, data |-> <<>>, log |-> <<>>, store |-> {}]

CallKinds == {"company_get", "transcript_get", "binary_get", "logo_get", "put_object"}
NoCalls == [k \in CallKinds |-> 0]
Called(kind) == [calls EXCEPT ![kind] = @ + 1]

\* a get_company_events coroutine: the status its request got (0 while none, and
\* for a transport exception) and the value it returned
Pending == [state |-> "pending", status |-> 0, result |-> EmptyDict]

Init ==
    /\ pc = "form"
    /\ runs = 0
    /\ processing_complete = FALSE
    /\ outcome = "none"
    /\ isin_list = <<>>
    /\ start_date = <<>>
    /\ end_date = <<>>
    /\ selected_docs = <<>>
    /\ tasks = <<>>
    /\ companies_data = <<>>
    /\ total_files = 0
    /\ processed_files = 0
    /\ successful_uploads = 0
    /\ failed_uploads = 0
    /\ units = <<>>
    /\ cur = 0
    /\ resp = "none"
    /\ unit_calls = <<>>
    /\ s3_key = <<>>
    /\ calls = NoCalls
    /\ progress_bar = <<0, 1>>
    /\ files_processed = <<>>
    /\ progress_updates = 0
    /\ final_results = <<>>
    /\ unit_errors = 0
    /\ run_errors = 0
    /\ raised = FALSE
    /\ recording = FALSE
    /\ fetch_order = <<>>
    /\ put_log = <<>>
    /\ store = {}
    /\ first_run = NoRun

\* the script has drawn the form and waits for its submission
AtForm == pc = "form"

\* main has returned: the page shows what the submission ended with
Returned == pc \in {"rejected", "done", "aborted"}

\* [isin.strip() for isin in isin_input.split("\n") if isin.strip()]
IsinList(lines) == SelectSeq(lines, LAMBDA l : l # Blank)

\* the checks of main on a submitted form: the error it shows, "ok" without one
Validate(lines, sd, ed, docs, bucket) ==
    IF lines = <<>> \/ bucket = <<>> \/ docs = <<>> THEN "fill_required_fields"
    ELSE IF DateGt(sd, ed) THEN "start_after_end"
    ELSE IF IsinList(lines) = <<>> THEN "enter_valid_isin"
    ELSE "ok"

\* the locals of process_documents before the try: the counters start at 0, the
\* progress bar at st.progress(0), the tally at st.empty()
ResetRun ==
    /\ total_files' = 0
    /\ processed_files' = 0
    /\ successful_uploads' = 0
    /\ failed_uploads' = 0
    /\ companies_data' = <<>>
    /\ units' = <<>>
    /\ cur' = 0
    /\ resp' = "none"
    /\ unit_calls' = <<>>
    /\ s3_key' = <<>>
    /\ calls' = NoCalls
    /\ progress_bar' = <<0, 1>>
    /\ files_processed' = <<>>
    /\ progress_updates' = 0
    /\ final_results' = <<>>
    /\ unit_errors' = 0
    /\ run_errors' = 0
    /\ raised' = FALSE
    /\ fetch_order' = <<>>
    /\ put_log' = <<>>

\* main: a submission the checks turn down
SubmitRejected ==
    /\ AtForm
    /\ runs < MaxRuns
    /\ \E lines \in IsinInputs, sd \in DateInputs, ed \in DateInputs,
          docs \in DocSelections, bucket \in BucketInputs :
          /\ Validate(lines, sd, ed, docs, bucket) # "ok"
          /\ outcome' = Validate(lines, sd, ed, docs, bucket)
    /\ pc' = "rejected"
    /\ runs' = runs + 1
    /\ UNCHANGED <<session_vars, arg_vars, counter_vars, shown_vars, error_vars>>
    /\ UNCHANGED <<tasks, companies_data, units, cur, resp, unit_calls, s3_key, calls>>
    /\ UNCHANGED history_vars

\* main: a submission that starts process_documents, up to the await of gather
Submit ==
    /\ AtForm
    /\ runs < MaxRuns
    /\ \E lines \in IsinInputs, sd \in DateInputs, ed \in DateInputs,
          docs \in DocSelections, bucket \in BucketInputs :
          /\ Validate(lines, sd, ed, docs, bucket) = "ok"
          /\ isin_list' = IsinList(lines)
          /\ start_date' = Strftime(sd)
          /\ end_date' = Strftime(ed)
          /\ selected_docs' = docs
          /\ tasks' = [i \in 1..Len(IsinList(lines)) |-> Pending]
    /\ pc' = "gather"
    /\ runs' = runs + 1
    /\ outcome' = "none"
    /\ ResetRun
    /\ UNCHANGED <<session_vars, recording, store, first_run>>

\* a rerun whose top assigns the session state without testing for its presence
RerunInitialisesAgain ==
    /\ Returned
    /\ runs < MaxRuns
    /\ pc' = "form"
    /\ outcome' = "none"
    /\ isin_list' = <<>>
    /\ start_date' = <<>>
    /\ end_date' = <<>>
    /\ selected_docs' = <<>>
    /\ tasks' = <<>>
    /\ ResetRun
    /\ processing_complete' = FALSE
    /\ UNCHANGED <<runs, recording, store, first_run>>

\* the next interaction reruns the script from its top: the locals of the last
\* call of process_documents are gone, st.session_state stays
Rerun ==
    /\ Returned
    /\ runs < MaxRuns
    /\ pc' = "form"
    /\ outcome' = "none"
    /\ isin_list' = <<>>
    /\ start_date' = <<>>
    /\ end_date' = <<>>
    /\ selected_docs' = <<>>
    /\ tasks' = <<>>
    /\ ResetRun
    /\ UNCHANGED <<runs, session_vars, recording, store, first_run>>

\* get_company_events that returns the body whatever the request did
GetCompanyEventsAnyStatus(isin, transport_ok) == Catalog(isin).json

\* get_company_events: what the coroutine returns; neither the error status nor the
\* exception leaves it
GetCompanyEvents(isin, transport_ok) ==
    IF ~transport_ok THEN EmptyDict
    ELSE IF Catalog(isin).status = 200 THEN Catalog(isin).json
    ELSE EmptyDict

\* one get_company_events coroutine runs to its end
FetchComplete ==
    /\ pc = "gather"
    /\ \E i \in 1..Len(tasks), transport_ok \in BOOLEAN :
          /\ tasks[i].state = "pending"
          /\ tasks' = [tasks EXCEPT ![i] =
                          [state |-> "done",
                           status |-> IF transport_ok THEN Catalog(isin_list[i]).status
                                      ELSE 0,
                           result |-> GetCompanyEvents(isin_list[i], transport_ok)]]
          /\ fetch_order' = IF recording THEN Append(fetch_order, i) ELSE fetch_order
    /\ calls' = Called("company_get")
    /\ UNCHANGED <<pc, runs, outcome, companies_data, units, cur, resp, unit_calls,
                   s3_key>>
    /\ UNCHANGED <<session_vars, arg_vars, counter_vars, shown_vars, error_vars>>
    /\ UNCHANGED <<recording, put_log, store, first_run>>

\* gather left as soon as one coroutine is done
AnyFetched == \E i \in 1..Len(tasks) : tasks[i].state = "done"

\* await asyncio.gather(*tasks) returns when every coroutine is done
AllFetched == \A i \in 1..Len(tasks) : tasks[i].state = "done"

\* the request that opens a unit: the await the loop suspends at first
RequestOf(unit) == IF unit.doc_type = "transcript" THEN "transcript_get" ELSE "binary_get"

\* the final results with the two upload counts exchanged
FinalResultsSwapped(total, succeeded, failed) == <<total, failed, succeeded>>

\* the final results text: total files processed, successful and failed uploads
FinalResults(total, succeeded, failed) == <<total, succeeded, failed>>

\* the processing loop goes on from unit k: it suspends in the unit's first
\* request, or, past the last unit, shows the final results and sets the flag
Advance(todo, k) ==
    IF k <= Len(todo)
    THEN /\ cur' = k
         /\ pc' = RequestOf(todo[k])
         /\ unit_calls' = <<RequestOf(todo[k])>>
         /\ calls' = Called(RequestOf(todo[k]))
         /\ resp' = "none"
         /\ s3_key' = <<>>
         /\ unit_errors' = 0
         /\ UNCHANGED <<outcome, processing_complete, shown_vars, run_errors, raised>>
    ELSE /\ pc' = "done"
         /\ outcome' = "processing_complete"
         /\ progress_bar' = <<1, 1>>
         /\ final_results' = FinalResults(total_files, successful_uploads, failed_uploads)
         /\ processing_complete' = TRUE
         /\ UNCHANGED <<cur, unit_calls, calls, resp, s3_key>>
         /\ UNCHANGED <<files_processed, progress_updates, error_vars>>

\* the results in the order the coroutines completed, as asyncio.as_completed
\* gives them
GatherAsCompleted(ts) ==
    IF Len(fetch_order) = Len(ts)
    THEN [i \in 1..Len(ts) |-> ts[fetch_order[i]].result]
    ELSE [i \in 1..Len(ts) |-> ts[i].result]

\* await asyncio.gather(*tasks): the results in the order of the tasks
Gather(ts) == [i \in 1..Len(ts) |-> ts[i].result]

\* the test written as total_files < 0
NoMatchingNegative(total) == total < 0

\* the test inverted
NoMatchingInverted(total) == total # 0

\* if total_files == 0
NoMatching(total) == total = 0

\* an except branch that shows the error and does not raise it again
AbortNotRaised ==
    /\ pc' = "aborted"
    /\ outcome' = "none"
    /\ run_errors' = run_errors + 1
    /\ raised' = FALSE
    /\ UNCHANGED <<processed_files, successful_uploads, failed_uploads,
                   processing_complete, shown_vars, unit_errors>>

\* an exception leaves the try of process_documents: st.error, raise, and main's
\* except shows it again and returns
Abort ==
    /\ pc' = "aborted"
    /\ outcome' = "error"
    /\ run_errors' = run_errors + 1 + 1
    /\ raised' = TRUE
    /\ UNCHANGED <<processed_files, successful_uploads, failed_uploads,
                   processing_complete, shown_vars, unit_errors>>

\* gather returns: the counting loop, the return when nothing matches, and the
\* processing loop up to its first request
CountFiles ==
    /\ pc = "gather"
    /\ AllFetched
    /\ LET data == Gather(tasks)
           total == CountTotal(data, start_date, end_date, selected_docs)
           todo == ProcUnits(data, start_date, end_date, selected_docs)
       IN  /\ companies_data' = data
           /\ IF CountingRaises(data)
              THEN /\ total_files' = CountBeforeRaise(data, start_date, end_date,
                                                      selected_docs)
                   /\ Abort
                   /\ UNCHANGED <<units, cur, resp, unit_calls, s3_key, calls>>
              ELSE IF NoMatching(total)
              THEN /\ total_files' = total
                   /\ pc' = "done"
                   /\ outcome' = "no_matching_documents"
                   /\ UNCHANGED <<processing_complete, units, cur, resp, unit_calls,
                                  s3_key, calls, shown_vars, error_vars>>
              ELSE /\ total_files' = total
                   /\ units' = todo
                   /\ Advance(todo, 1)
    /\ UNCHANGED <<runs, tasks, processed_files, successful_uploads, failed_uploads>>
    /\ UNCHANGED <<arg_vars, history_vars>>

\* st.secrets["branding"]["COMPANY_LOGO_URL"]
LogoUrl == <<"l">>

\* how the transcript URL can answer
TranscriptAnswers == {"text", "no_text", "not_200", "bad_json", "not_json_type",
                      "transport_error"}

\* process_transcript: the text it returns, or the exception it lets through.
\* response.json() raises aiohttp.ContentTypeError on a body that is not JSON
\* typed, session.get raises aiohttp.ClientError; only json.JSONDecodeError is
\* caught.
ProcessTranscript(answer) ==
    CASE answer = "text" -> [raised |-> FALSE, text |-> <<"h", "i">>]
      [] answer = "no_text" -> [raised |-> FALSE, text |-> <<>>]
      [] answer = "not_200" -> [raised |-> FALSE, text |-> <<>>]
      [] answer = "bad_json" -> [raised |-> FALSE, text |-> <<>>]
      [] answer = "not_json_type" -> [raised |-> TRUE, text |-> <<>>]
      [] answer = "transport_error" -> [raised |-> TRUE, text |-> <<>>]

\* process_transcript: the st.error calls it makes, one for a JSONDecodeError
TranscriptErrors(answer) == IF answer = "bad_json" THEN 1 ELSE 0

\* how the URL of a slides or report file can answer
BinaryAnswers == {"ok_200", "not_200", "transport_error"}

\* session.get(file_url) of a slides or report file: [raised, status]
GetFile(answer) ==
    CASE answer = "ok_200" -> [raised |-> FALSE, status |-> 200]
      [] answer = "not_200" -> [raised |-> FALSE, status |-> 404]
      [] answer = "transport_error" -> [raised |-> TRUE, status |-> 0]

\* upload_file that returns True also from its except branch
UploadFileAlwaysTrue(put_ok) == TRUE

\* upload_file: True, or False when put_object raised
UploadFile(put_ok) == put_ok

\* upload_file: the st.error calls it makes, one when put_object raised
UploadErrors(put_ok) == IF put_ok THEN 0 ELSE 1

\* Tally that counts a unit before its upload is known to have failed
TallyFailureLost(success, succeeded, failed, processed) ==
    [succeeded |-> IF success THEN succeeded + 1 ELSE succeeded,
     failed |-> failed,
     processed |-> processed + 1]

\* the counters after a unit: [successful_uploads, failed_uploads, processed_files]
Tally(success, succeeded, failed, processed) ==
    [succeeded |-> IF success THEN succeeded + 1 ELSE succeeded,
     failed |-> IF success THEN failed ELSE failed + 1,
     processed |-> processed + 1]

\* the fraction shown before the unit is counted
ProgressBeforeCount(processed, total) == <<processed - 1, total>>

\* progress = processed_files / total_files, as <<numerator, denominator>>
Progress(processed, total) == <<processed, total>>

\* the end of a unit: the counters, the progress bar and texts, and the await of
\* sleep
Account(success) ==
    LET t == Tally(success, successful_uploads, failed_uploads, processed_files)
    IN  /\ successful_uploads' = t.succeeded
        /\ failed_uploads' = t.failed
        /\ processed_files' = t.processed
        /\ progress_bar' = Progress(t.processed, total_files)
        /\ files_processed' = <<t.succeeded, t.failed>>
        /\ progress_updates' = progress_updates + 1
        /\ pc' = "sleep"
        /\ UNCHANGED <<total_files, outcome, processing_complete, final_results,
                       run_errors, raised>>

\* an upload under a key that carries the number of the run
StartUploadStamped(key, extra_calls) ==
    /\ s3_key' = key \o <<"-">> \o Pad2(runs)
    /\ unit_calls' = unit_calls \o extra_calls \o <<"put_object">>
    /\ calls' = [k \in CallKinds |->
                    calls[k] + Len(SelectSeq(extra_calls \o <<"put_object">>,
                                             LAMBDA c : c = k))]
    /\ pc' = "put_object"
    /\ UNCHANGED <<counter_vars, outcome, processing_complete, shown_vars, error_vars>>

\* the upload of the current unit starts: the key and the await of put_object
StartUpload(key, extra_calls) ==
    /\ s3_key' = key
    /\ unit_calls' = unit_calls \o extra_calls \o <<"put_object">>
    /\ calls' = [k \in CallKinds |->
                    calls[k] + Len(SelectSeq(extra_calls \o <<"put_object">>,
                                             LAMBDA c : c = k))]
    /\ pc' = "put_object"
    /\ UNCHANGED <<counter_vars, outcome, processing_complete, shown_vars, error_vars>>

\* the transcript URL answers: process_transcript returns or raises; with a text,
\* create_pdf (which fetches the logo) and the key, up to the await of the upload
TranscriptResponse ==
    /\ pc = "transcript_get"
    /\ \E answer \in TranscriptAnswers :
          LET r == ProcessTranscript(answer)
              unit == units[cur]
          IN  /\ resp' = answer
              /\ IF r.raised
                 THEN Abort /\ UNCHANGED <<total_files, unit_calls, s3_key, calls>>
                 ELSE IF Truthy(r.text)
                 THEN StartUpload(
                          FormatS3Key(unit.company_name, unit.event_date, unit.doc_type,
                                      TranscriptFilename(unit.event_title)),
                          IF Truthy(LogoUrl) THEN <<"logo_get">> ELSE <<>>)
                 ELSE /\ Account(FALSE)
                      /\ unit_errors' = unit_errors + TranscriptErrors(answer)
                      /\ UNCHANGED <<unit_calls, s3_key, calls>>
    /\ UNCHANGED <<runs, tasks, companies_data, units, cur>>
    /\ UNCHANGED <<arg_vars, history_vars>>

\* the URL of a slides or report file answers: on 200 the key from the URL's last
\* segment, up to the await of the upload
BinaryResponse ==
    /\ pc = "binary_get"
    /\ \E answer \in BinaryAnswers :
          LET r == GetFile(answer)
              unit == units[cur]
          IN  /\ resp' = answer
              /\ IF r.raised
                 THEN Abort /\ UNCHANGED <<total_files, unit_calls, s3_key, calls>>
                 ELSE IF r.status = 200
                 THEN StartUpload(
                          FormatS3Key(unit.company_name, unit.event_date, unit.doc_type,
                                      SplitLast(unit.file_url, "/")),
                          <<>>)
                 ELSE /\ Account(FALSE)
                      /\ UNCHANGED <<unit_calls, s3_key, calls, unit_errors>>
    /\ UNCHANGED <<runs, tasks, companies_data, units, cur>>
    /\ UNCHANGED <<arg_vars, history_vars>>

\* upload_file returns, and the unit ends
UploadDone ==
    /\ pc = "put_object"
    /\ \E put_ok \in BOOLEAN :
          /\ Account(UploadFile(put_ok))
          /\ unit_errors' = unit_errors + UploadErrors(put_ok)
          /\ resp' = IF put_ok THEN "uploaded" ELSE "upload_failed"
          /\ put_log' = IF recording
                        THEN Append(put_log, [unit |-> cur, key |-> s3_key, ok |-> put_ok])
                        ELSE put_log
          /\ store' = IF recording /\ put_ok THEN store \cup {s3_key} ELSE store
    /\ UNCHANGED <<runs, tasks, companies_data, units, cur, unit_calls, s3_key, calls>>
    /\ UNCHANGED <<arg_vars, recording, fetch_order, first_run>>

\* asyncio.sleep(0.1) returns: the loop goes on with the next unit
Wake ==
    /\ pc = "sleep"
    /\ Advance(units, cur + 1)
    /\ UNCHANGED <<runs, tasks, companies_data, units>>
    /\ UNCHANGED <<arg_vars, counter_vars, history_vars>>

Next ==
    \/ SubmitRejected
    \/ Submit
    \/ Rerun
    \/ FetchComplete
    \/ CountFiles
    \/ TranscriptResponse
    \/ BinaryResponse
    \/ UploadDone
    \/ Wake

Spec == Init /\ [][Next]_vars

(***************************************************************************)
(* A session whose runs are recorded: one submission, and the same         *)
(* submission once more after its run has ended.                           *)
(***************************************************************************)
\* the first submission has started process_documents, which awaits gather
InitRepeated ==
    /\ \E sel \in RepeatedSelections :
          /\ isin_list = sel.isins
          /\ start_date = Strftime(sel.start)
          /\ end_date = Strftime(sel.end)
          /\ selected_docs = sel.docs
          /\ tasks = [i \in 1..Len(sel.isins) |-> Pending]
    /\ pc = "gather"
    /\ runs = 1
    /\ processing_complete = FALSE
    /\ outcome = "none"
    /\ companies_data = <<>>
    /\ total_files = 0
    /\ processed_files = 0
    /\ successful_uploads = 0
    /\ failed_uploads = 0
    /\ units = <<>>
    /\ cur = 0
    /\ resp = "none"
    /\ unit_calls = <<>>
    /\ s3_key = <<>>
    /\ calls = NoCalls
    /\ progress_bar = <<0, 1>>
    /\ files_processed = <<>>
    /\ progress_updates = 0
    /\ final_results = <<>>
    /\ unit_errors = 0
    /\ run_errors = 0
    /\ raised = FALSE
    /\ recording = TRUE
    /\ fetch_order = <<>>
    /\ put_log = <<>>
    /\ store = {}
    /\ first_run = NoRun

\* the form is submitted once more as it was: the script reruns from its top and
\* main starts process_documents with the same arguments
Resubmit ==
    /\ pc \in {"done", "aborted"}
    /\ runs = 1
    /\ pc' = "gather"
    /\ runs' = runs + 1
    /\ outcome' = "none"
    /\ tasks' = [i \in 1..Len(isin_list) |-> Pending]
    /\ ResetRun
    /\ first_run' = [ended |-> TRUE, data |-> companies_data, log |-> put_log,
                     store |-> store]
    /\ UNCHANGED <<session_vars, arg_vars, recording, store>>

NextRepeated ==
    \/ Resubmit
    \/ FetchComplete
    \/ CountFiles
    \/ TranscriptResponse
    \/ BinaryResponse
    \/ UploadDone
    \/ Wake

SpecRepeated == InitRepeated /\ [][NextRepeated]_vars

(***************************************************************************)
(* Properties.                                                             *)
(***************************************************************************)
\* process_documents has left its counting loop
Counted == pc \in {"transcript_get", "binary_get", "put_object", "sleep", "done", "aborted"}

\* process_documents has just left its counting loop: it has returned for want of
\* documents, or waits for the answer to the first request of its first unit
JustCounted == Counted /\ processed_files = 0 /\ resp = "none"

\* process_documents has ended
RunEnded == pc \in {"done", "aborted"}

\* C1: in every state of a run, also between the awaits inside a unit,
\* processed <= total and succeeded + failed = processed.
C1_CountersConsistent ==
    /\ processed_files <= total_files
    /\ successful_uploads + failed_uploads = processed_files

\* a unit is being uploaded after both a success and a failure were counted
C1_MidUnitWitness ==
    /\ pc = "put_object"
    /\ successful_uploads >= 1
    /\ failed_uploads >= 1

\* C2: a run with total > 0 that reaches DONE has iterated as many units as the
\* counting loop counted: succeeded + failed = processed = total.
C2_DoneProcessedAll ==
    (pc = "done" /\ total_files > 0) =>
        /\ successful_uploads + failed_uploads = processed_files
        /\ processed_files = total_files
        /\ cur = total_files
        /\ Len(units) = total_files

\* a run over two companies is done with several units, some failed, some uploaded
C2_DoneWitness ==
    /\ pc = "done"
    /\ total_files >= 3
    /\ successful_uploads >= 1
    /\ failed_uploads >= 1

\* the answers that are failures of one unit
UnitFailures == {"no_text", "not_200", "bad_json", "not_json_type", "transport_error",
                 "upload_failed"}

\* C3: a failure of one unit (no transcript, a fetch that fails or raises, a body
\* that does not parse or is not JSON typed, a failed upload) is counted as failed
\* and the run goes on: it never aborts the run.
C3_UnitFailureContained ==
    resp \in UnitFailures => (pc \in {"sleep", "done"} /\ failed_uploads >= 1)

\* C4: when a run has ended, every unit counted in total has been attempted and
\* is counted in exactly one of succeeded and failed.
C4_EveryUnitAccounted ==
    (RunEnded /\ total_files > 0) =>
        /\ cur = total_files
        /\ successful_uploads + failed_uploads = total_files

\* the requests made for documents
DocumentCalls == {"transcript_get", "binary_get", "logo_get", "put_object"}

\* C5: a run whose selection counts total = 0 is done at once, with the "no
\* matching documents" message: no request for a document is made and the
\* counters stay 0.
C5_NoMatchingEndsAtOnce ==
    (Counted /\ total_files = 0) =>
        /\ pc = "done"
        /\ outcome = "no_matching_documents"
        /\ \A k \in DocumentCalls : calls[k] = 0
        /\ unit_calls = <<>>
        /\ cur = 0
        /\ processed_files = 0
        /\ successful_uploads = 0
        /\ failed_uploads = 0

\* a recognized company was fetched and none of its events is selected
C5_NoMatchingWitness ==
    /\ pc = "done"
    /\ total_files = 0
    /\ \E c \in 1..Len(companies_data) : ~NotDict(companies_data[c])

\* every metadata fetch of the run has failed
AllFetchesFailed ==
    /\ Len(tasks) > 0
    /\ \A i \in 1..Len(tasks) : tasks[i].state = "done" /\ tasks[i].status # 200

\* C6 as stated: a run in which every metadata fetch fails ends with a "no valid
\* identifiers" outcome of its own.
C6_NoValidIdentifiersOutcome ==
    (AllFetchesFailed /\ pc # "gather") => outcome = "no_valid_identifiers"

\* C6 as amended: a run in which every metadata fetch fails goes through the
\* counting loop, which counts total = 0, and ends with the same "no matching
\* documents" outcome as a run whose companies have no matching document.
C6_AllFailedIsNoMatching ==
    (AllFetchesFailed /\ pc # "gather") =>
        /\ pc = "done"
        /\ outcome = "no_matching_documents"
        /\ total_files = 0
        /\ Len(companies_data) = Len(tasks)
        /\ \A c \in 1..Len(companies_data) : NotDict(companies_data[c])

\* a run of two identifiers, one unknown and one unreachable, has ended
C6_AllFailedWitness ==
    /\ pc = "done"
    /\ Len(tasks) = 2
    /\ tasks[1].status = 404
    /\ tasks[2].status = 0

\* transcript URLs of the catalog that do not point at a raw-transcript resource
IndirectTranscriptUrls == {AcmeCorp.events[1].transcriptUrl}

\* C7: for a transcript unit whose URL does not point at a raw transcript, one
\* request goes to the "transcripts" resource before the transcript is fetched;
\* without a URL from it the unit is failed and nothing is uploaded.
C7_TranscriptIndirection ==
    (/\ pc \in {"put_object", "sleep"}
     /\ units[cur].doc_type = "transcript"
     /\ units[cur].file_url \in IndirectTranscriptUrls) =>
        Len(SelectSeq(unit_calls, LAMBDA c : c = "transcripts_lookup")) = 1

\* the units the counting loop counts for the company of task i
UnitsOfTask(i) ==
    CountCompany(Catalog(isin_list[i]).json, start_date, end_date, selected_docs)

\* C8: an identifier whose metadata fetch fails yields an empty result, is asked
\* for once, adds nothing to total, has no unit, and the units of the other
\* identifiers are counted and, in a run that reaches DONE, all processed.
C8_FailedIdentifierDropped ==
    /\ calls["company_get"] =
           Cardinality({i \in 1..Len(tasks) : tasks[i].state = "done"})
    /\ \A i \in 1..Len(tasks) :
           (tasks[i].state = "done" /\ tasks[i].status # 200) =>
               /\ NotDict(tasks[i].result)
               /\ pc = "aborted" => resp \in {"not_json_type", "transport_error"}
               /\ \A k \in 1..Len(units) : units[k].company # i
    /\ JustCounted =>
           total_files = SumSeq([i \in 1..Len(tasks) |->
                                    IF tasks[i].status = 200 THEN UnitsOfTask(i) ELSE 0])
    /\ Counted =>
           /\ failed_uploads <= total_files
           /\ pc = "done" => processed_files = total_files

\* a run with a failed identifier before a recognized one processed all the
\* units of the recognized one
C8_DroppedWitness ==
    /\ pc = "done"
    /\ Len(tasks) = 2
    /\ tasks[1].status # 200
    /\ tasks[2].status = 200
    /\ total_files > 0
    /\ processed_files = total_files

\* the number a string of digits writes
DigitVal(c) == CHOOSE n \in 0..9 : Digits[n + 1] = c
RECURSIVE Number(_)
Number(s) == IF s = <<>> THEN 0 ELSE 10 * Number(SubSeq(s, 1, Len(s) - 1)) + DigitVal(s[Len(s)])

\* the calendar date <<year, month, day>> at the head of an ISO 8601 string
CalendarDate(s) == <<Number(SubSeq(s, 1, 4)), Number(SubSeq(s, 6, 7)), Number(SubSeq(s, 9, 10))>>

\* a <= b on calendar dates
DateLeq(a, b) == ~DateGt(a, b)

\* the calendar date d lies in [start, end], both ends included
InCalendarRange(start, d, end) == DateLeq(start, d) /\ DateLeq(d, end)

\* the (company, event, type) triples that the calendar test and the URLs select
SelectedTriples ==
    LET start == CalendarDate(start_date)
        end == CalendarDate(end_date)
    IN  {t \in UNION {{c} \X (1..Len(Get(companies_data[c], "events", <<>>)))
                          \X (1..Len(selected_docs)) : c \in 1..Len(companies_data)} :
            /\ Truthy(FileUrl(companies_data[t[1]].events[t[2]], selected_docs[t[3]]))
            /\ InCalendarRange(start,
                               CalendarDate(companies_data[t[1]].events[t[2]].eventDate),
                               end)}

\* C9: an event is selected iff its calendar date lies in [start_date, end_date],
\* both ends included, and the counting loop and the processing loop select the
\* same events: total is the number of selected (event, type) pairs with a URL and
\* the units are exactly these pairs.
C9_InclusiveSelection ==
    JustCounted =>
        LET selected == SelectedTriples
        IN  /\ total_files = Cardinality(selected)
            /\ total_files > 0 =>
                  /\ Len(units) = total_files
                  /\ \A t \in selected :
                        \E k \in 1..Len(units) :
                            /\ units[k].company = t[1]
                            /\ units[k].event = t[2]
                            /\ units[k].doc_type = selected_docs[t[3]]

\* the range is the single day of one event: that event is selected, the event of
\* the next day is not
C9_BoundaryWitness ==
    /\ pc = "done"
    /\ start_date = Strftime(<<2024, 3, 5>>)
    /\ end_date = Strftime(<<2024, 3, 5>>)
    /\ \E c \in 1..Len(companies_data) :
          /\ ~NotDict(companies_data[c])
          /\ companies_data[c].displayName = AcmeCorp.displayName
    /\ \E k \in 1..Len(units) : units[k].event = 1
    /\ \A k \in 1..Len(units) : units[k].event # 2

\* s with every character c removed
RECURSIVE Without(_, _)
Without(s, c) ==
    IF s = <<>> THEN <<>>
    ELSE IF Head(s) = c THEN Without(Tail(s), c)
    ELSE <<Head(s)>> \o Without(Tail(s), c)

\* the event date of a unit as the catalog gave it
RawDate(unit) == companies_data[unit.company].events[unit.event].eventDate

\* the file name the current unit is uploaded under
UnitFilename(unit) ==
    IF unit.doc_type = "transcript" THEN TranscriptFilename(unit.event_title)
    ELSE SplitLast(unit.file_url, "/")

\* C10 as stated: the key is company/date/category/filename, lower-cased, spaces
\* replaced by underscores, and the path separator stripped from the company.
C10_KeyStripsCompany ==
    pc = "put_object" =>
        s3_key = Without(Lower(Replace(units[cur].company_name, " ", "_")), "/")
                     \o <<"/">> \o SubSeq(RawDate(units[cur]), 1, 10)
                     \o <<"/">> \o Lower(DocTypeStr(units[cur].doc_type))
                     \o <<"/">> \o Lower(Replace(UnitFilename(units[cur]), " ", "_"))

\* one character of a cleaned segment
CleanChar(c) == IF c \in {" ", "/"} THEN "_" ELSE LowerChar(c)

\* "acme_corp/2024-03-05/slides/q1_slides.pdf"
AcmeSlidesKey == <<"a","c","m","e","_","c","o","r","p","/","2","0","2","4","-","0","3","-","0","5","/","s","l","i","d","e","s","/","q","1","_","s","l","i","d","e","s",".","p","d","f">>

\* C10 as amended: the key is company/date/category/filename where the company is
\* lower-cased with every space and every "/" replaced by an underscore (nothing
\* is removed), the date is cut at its "T", the category is unchanged and the file
\* name is lower-cased with spaces replaced by underscores; the key of
\* ("Acme Corp", "2024-03-05T00:00:00", "slides", "Q1 Slides.pdf") is
\* "acme_corp/2024-03-05/slides/q1_slides.pdf".
C10_KeyFormat ==
    pc = "put_object" =>
        LET unit == units[cur]
            company == [i \in 1..Len(unit.company_name) |-> CleanChar(unit.company_name[i])]
            filename == UnitFilename(unit)
            clean == [i \in 1..Len(filename) |->
                         IF filename[i] = " " THEN "_" ELSE LowerChar(filename[i])]
        IN  /\ s3_key = company \o <<"/">> \o SplitFirst(RawDate(unit), "T") \o <<"/">>
                            \o DocTypeStr(unit.doc_type) \o <<"/">> \o clean
            /\ Len(company) = Len(unit.company_name)
            /\ (/\ unit.company_name = AcmeCorp.displayName
                /\ unit.doc_type = "slides"
                /\ unit.event = 1) => s3_key = AcmeSlidesKey

\* the slides of Acme Corp's first event are being uploaded
C10_AcmeSlidesWitness ==
    /\ pc = "put_object"
    /\ units[cur].company_name = AcmeCorp.displayName
    /\ units[cur].doc_type = "slides"
    /\ s3_key = AcmeSlidesKey

\* the processing loop is inside a unit or between two units
Processing == pc \in {"transcript_get", "binary_get", "put_object", "sleep"}

\* C13: during PROCESSING the progress is updated once after every unit, never
\* batched or reordered: an update comes with processed growing by exactly 1, shows
\* the fraction processed / total, which lies in (0, 1] and is greater than the
\* fraction shown before, and shows the tally equal to the succeeded and failed
\* counters; the number of updates is the number of units processed.
C13_ProgressPerUnit ==
    [][ /\ Processing' => progress_updates' = processed_files'
        /\ (Processing /\ processed_files' # processed_files) =>
                progress_updates' = progress_updates + 1
        /\ (progress_updates' = progress_updates + 1) =>
                /\ processed_files' = processed_files + 1
                /\ progress_bar' = <<processed_files', total_files'>>
                /\ 0 < progress_bar'[1]
                /\ progress_bar'[1] <= progress_bar'[2]
                /\ progress_bar'[1] * progress_bar[2] > progress_bar[1] * progress_bar'[2]
                /\ files_processed' = <<successful_uploads', failed_uploads'>>
      ]_vars

\* the second of at least three units has just been counted and shown
C13_SecondUpdateWitness ==
    /\ pc = "sleep"
    /\ progress_updates = 2
    /\ total_files >= 3
    /\ progress_bar = <<2, total_files>>
    /\ files_processed = <<1, 1>>

\* the units the processing loop has started and has neither counted nor left by
\* an exception
UnitsInFlight == cur - processed_files - (IF raised THEN 1 ELSE 0)

\* every metadata fetch of the run has been answered
NoFetchOutstanding ==
    /\ \A i \in 1..Len(tasks) : tasks[i].state # "pending"
    /\ calls["company_get"] = Len(isin_list)

\* C15: whatever the order in which the metadata fetches complete, no document is
\* requested, rendered or uploaded while a metadata fetch is outstanding, and at
\* most one unit is in flight at any time: a unit is started only when the one
\* before it has been counted.
C15_FetchesThenOneUnitAtATime ==
    /\ (Processing \/ \E k \in DocumentCalls : calls[k] > 0) => NoFetchOutstanding
    /\ pc = "gather" => (cur = 0 /\ \A k \in DocumentCalls : calls[k] = 0)
    /\ calls["transcript_get"] + calls["binary_get"] = cur
    /\ calls["put_object"] <= cur
    /\ UnitsInFlight \in {0, 1}
    /\ UnitsInFlight = 1 <=> pc \in {"transcript_get", "binary_get", "put_object"}
    /\ Len(unit_calls) <= 3

\* the second unit of a run over two identifiers is being uploaded
C15_SecondUnitWitness ==
    /\ pc = "put_object"
    /\ Len(tasks) = 2
    /\ cur = 2
    /\ processed_files = 1
    /\ calls["company_get"] = 2

\* the upload calls among a unit's requests
UploadCalls(requests) == Len(SelectSeq(requests, LAMBDA c : c = "put_object"))

\* C16: a unit is counted as succeeded only if exactly one upload call was made for
\* it and that call returned true; a transcript unit with no text to render and a
\* slides or report unit whose fetch is not status 200 are counted as failed
\* without any upload call.
C16_SuccessIsOneTrueUpload ==
    [][ /\ (successful_uploads' = successful_uploads + 1) =>
                /\ pc = "put_object"
                /\ resp' = "uploaded"
                /\ UploadCalls(unit_calls') = 1
                /\ failed_uploads' = failed_uploads
        /\ (pc \in {"transcript_get", "binary_get"}
                /\ resp' \in {"no_text", "not_200", "bad_json"}) =>
                /\ failed_uploads' = failed_uploads + 1
                /\ successful_uploads' = successful_uploads
                /\ UploadCalls(unit_calls') = 0
                /\ calls'["put_object"] = calls["put_object"]
                /\ s3_key' = <<>>
        /\ (pc = "put_object" /\ resp' = "upload_failed") =>
                /\ failed_uploads' = failed_uploads + 1
                /\ successful_uploads' = successful_uploads
      ]_vars

\* a unit has just been counted as succeeded after its one upload, in a run that
\* has also counted a failed unit
C16_UploadedWitness ==
    /\ pc = "sleep"
    /\ resp = "uploaded"
    /\ UploadCalls(unit_calls) = 1
    /\ successful_uploads = 1
    /\ failed_uploads = 1
    /\ calls["put_object"] = 1

\* C18 as stated: whenever a run is DONE, after PROCESSING every unit or directly
\* from COUNTING with total = 0, the final counts have been shown and the
\* "processing complete" flag is true.
C18_DoneShowsCountsAndSetsFlag ==
    pc = "done" => (final_results # <<>> /\ processing_complete = TRUE)

\* C18: a run that is DONE after PROCESSING every unit has shown the final counts
\* (total, succeeded, failed) and full progress, and the "processing complete" flag
\* is true; a run DONE directly from COUNTING with total = 0 has shown only the "no
\* matching documents" warning: no final counts, and the flag is not set by it.
C18_DoneAfterProcessingShowsCounts ==
    /\ (pc = "done" /\ total_files > 0) =>
            /\ outcome = "processing_complete"
            /\ final_results = <<total_files, successful_uploads, failed_uploads>>
            /\ progress_bar = <<1, 1>>
            /\ processing_complete = TRUE
    /\ (pc = "done" /\ total_files = 0) =>
            /\ outcome = "no_matching_documents"
            /\ final_results = <<>>
            /\ progress_bar = <<0, 1>>
            /\ (runs = 1 => processing_complete = FALSE)

\* the first run of a session is done with two units, one uploaded, one failed
C18_DoneWithCountsWitness ==
    /\ pc = "done"
    /\ runs = 1
    /\ final_results = <<2, 1, 1>>
    /\ processing_complete = TRUE

\* C20: over the runs of a session the "processing complete" flag is changed only
\* by the last step of a run that completed the processing loop with total > 0,
\* and only to true; a run that ends ABORTED or with total = 0 leaves it as it
\* was, and nothing (no later run, no rerun of the script) resets it to false.
C20_FlagSetOnlyByCompletedRun ==
    [][ /\ (processing_complete' # processing_complete) =>
                /\ processing_complete' = TRUE
                /\ pc = "sleep"
                /\ pc' = "done"
                /\ total_files > 0
                /\ processed_files = total_files
                /\ cur = total_files
        /\ processing_complete => processing_complete'
        /\ (pc # "aborted" /\ pc' = "aborted") =>
                processing_complete' = processing_complete
        /\ (pc # "done" /\ pc' = "done" /\ total_files' = 0) =>
                processing_complete' = processing_complete
      ]_vars

\* the second run of a session has ended for want of documents, and the flag the
\* first run set is still true
C20_LaterRunKeepsFlagWitness ==
    /\ runs = 2
    /\ pc = "done"
    /\ total_files = 0
    /\ outcome = "no_matching_documents"
    /\ processing_complete = TRUE

\* the units a run asked to upload and how the store answered, in order
PutOutcomes(log) == [i \in 1..Len(log) |-> <<log[i].unit, log[i].ok>>]

\* the keys a run asked to upload under, in order
PutKeys(log) == [i \in 1..Len(log) |-> log[i].key]

\* the run is the repetition of the first run and got the same metadata
SameSelectionAgain == first_run.ended /\ Counted /\ companies_data = first_run.data

KeyTuple(unit) == <<unit.company_name, unit.event_date, unit.doc_type, UnitFilename(unit)>>

CleanTuple(unit) ==
    LET filename == UnitFilename(unit)
    IN  <<[i \in 1..Len(unit.company_name) |-> CleanChar(unit.company_name[i])],
          unit.event_date,
          unit.doc_type,
          [i \in 1..Len(filename) |->
              IF filename[i] = " " THEN "_" ELSE LowerChar(filename[i])]>>

\* an upload has just been answered
JustPut == pc = "sleep" /\ resp \in {"uploaded", "upload_failed"}

DocPosition(doc_type) ==
    CHOOSE p \in 1..Len(selected_docs) : selected_docs[p] = doc_type

\* unit a comes before unit b: by company, then by event, then by category
Before(a, b) ==
    \/ a.company < b.company
    \/ a.company = b.company /\ a.event < b.event
    \/ a.company = b.company /\ a.event = b.event
            /\ DocPosition(a.doc_type) < DocPosition(b.doc_type)

C17_ExceptionAborts ==
    [][ /\ (pc # "aborted" /\ pc' = "aborted") =>
                /\ pc \in {"gather", "transcript_get", "binary_get"}
                /\ raised'
                /\ outcome' = "error"
                /\ run_errors' >= 1
                /\ final_results' = <<>>
                /\ processing_complete' = processing_complete
                /\ processed_files' = processed_files
                /\ successful_uploads' = successful_uploads
                /\ failed_uploads' = failed_uploads
                /\ cur' = cur
                /\ calls' = calls
                /\ store' = store
        /\ (pc = "aborted" /\ runs' = runs) =>
                /\ pc' = "aborted"
                /\ cur' = cur
                /\ processed_files' = processed_files
                /\ final_results' = <<>>
        /\ (pc' = "aborted") <=> raised'
        /\ (pc' = "done") => ~raised'
      ]_vars

\* a run has been aborted inside its second unit, with two more units never started
C17_AbortedMidRunWitness ==
    /\ pc = "aborted"
    /\ raised
    /\ outcome = "error"
    /\ cur = 2
    /\ processed_files = 1
    /\ total_files = 4
    /\ final_results = <<>>

\* a run has been aborted in its counting loop, at an event without a date
C17_AbortedCountingReached ==
    /\ pc = "aborted"
    /\ raised
    /\ cur = 0
    /\ units = <<>>
    /\ total_files = 2

\* C19: every failure is reported exactly once: a unit that failed (transcript
\* fetch not 200 or without text, slides or report fetch not 200, upload failure)
\* has produced exactly one warning or error, an exception of the run exactly one
\* error across process_documents and main, and no request is made twice for a
\* unit.
C19_EveryFailureReportedOnce ==
    /\ (pc = "sleep" /\ resp \in {"no_text", "not_200", "bad_json", "upload_failed"}) =>
            unit_errors = 1
    /\ pc = "aborted" => run_errors = 1
    /\ \A k \in CallKinds : Len(SelectSeq(unit_calls, LAMBDA c : c = k)) <= 1

=============================================================================
